---- MODULE Spec2Model ----
(***************************************************************************)
(* Model of shelly_exporter.py: the Metrics collection (add, merge), the   *)
(* device-type dispatch of Shelly.get_metrics, the persisted probe store   *)
(* MetricsFile, and the two request handlers Prober.on_get (/probe) and    *)
(* Static.on_get (/metrics).                                               *)
(*                                                                         *)
(* Python values are modelled as follows.                                  *)
(*   dict with string keys, order irrelevant (labels, JSON objects):       *)
(*       a TLA+ function (record) over the keys.                           *)
(*   dict whose iteration order is observable (Metrics._metrics, the       *)
(*   persisted document): a sequence of entries with unique keys, in       *)
(*   insertion order.                                                      *)
(*   a call that may raise: a record whose field exc names the exception   *)
(*       class ("none" when the call returns).                             *)
(***************************************************************************)
EXTENDS Integers, Sequences, FiniteSets, TLC

VARIABLES
    \* ---- the exporter process (run, Prober.on_get, Static.on_get) ----
    s3_bucket,        \* cfg['s3_bucket']: "" (None, local file) or a bucket name
    static_targets,   \* cfg['static_targets']: sequence of device identities
    server,           \* position in run(): "start" | "serving" (waiting for a request)
                      \* | "responding" (a handler has returned) | "crashed"
    file,             \* the local file at MetricsFile._path
    tmpfile,          \* the local file at MetricsFile._s3_tmp
    s3obj,            \* the object MetricsFile._path in the bucket
    now,              \* int(time.time())
    resp,             \* the response of the last request
    last,             \* the last request and what it met (history)
    saved,            \* identity -> the collection of its last successful save (history)
    \* ---- Metrics.add / Metrics.merge applied to built collections ----
    mcur,             \* the collection being built by add calls
    mlist,            \* metrics_list handed to Metrics.merge
    mout,             \* result of Metrics.merge
    mbudget,          \* add calls left
    \* ---- Shelly.get_metrics applied to a device ----
    dtype,            \* the type string the device reports
    ddev,             \* the device's answers to /shelly, /status, /settings
    dout,             \* result of Shelly.get_metrics
    \* ---- two concurrent MetricsFile.add_metrics on one local file ----
    cfile,            \* the shared local file at MetricsFile._path
    cjob,             \* saver -> the (name, metrics) it was called with
    cpc,              \* saver -> position in add_metrics
    call,             \* saver -> its local all_metrics
    cerr,             \* saver -> exception raised ("none")
    clog              \* the file operations done so far, in order (history)

srvVars   == <<s3_bucket, static_targets, server, file, tmpfile, s3obj, now, resp, last, saved>>
mergeVars == <<mcur, mlist, mout, mbudget>>
dispVars  == <<dtype, ddev, dout>>
concVars  == <<cfile, cjob, cpc, call, cerr, clog>>
vars      == <<srvVars, mergeVars, dispVars, concVars>>

(***************************************************************************)
(* Generic helpers                                                         *)
(***************************************************************************)
Range(s) == {s[i] : i \in DOMAIN s}

\* str(i) for the small indices enumerate() yields
Str(i) == <<"0", "1", "2", "3", "4", "5", "6", "7", "8", "9">>[i + 1]

\* {**a, **b}: b's keys override a's
DictUnion(a, b) ==
    [k \in (DOMAIN a) \cup (DOMAIN b) |-> IF k \in DOMAIN b THEN b[k] ELSE a[k]]

NoLabels == [k \in {} |-> ""]

\* TRUE of every value.  TLC evaluates an operator's argument when it is first
\* used: a loop tests Computed(x) of each intermediate result so that the result
\* is evaluated before the next iteration starts, as the Python loop does.
\* (Intermediate results are handed on as arguments, not named by LET.)
Computed(v) == v = v

(***************************************************************************)
(* class Metrics                                                           *)
(*   a collection is [prefix, labels, metrics]; metrics is the ordered     *)
(*   dict name -> {help, type, values}, as a sequence of                   *)
(*   [name, help, type, values]; values is a sequence of [labels, value].  *)
(*   prefix "" stands for None.                                            *)
(***************************************************************************)
Metrics_init(prefix, labels) == [prefix |-> prefix, labels |-> labels, metrics |-> <<>>]

MetricNames(m) == {m.metrics[i].name : i \in DOMAIN m.metrics}

MetricIndex(m, name) == CHOOSE i \in DOMAIN m.metrics : m.metrics[i].name = name

\* a faulty variant: a second sample of a known name replaces the list instead of extending it
Metrics_add_replacing(m, metric, value, labels, help, type) ==
    LET lbl   == DictUnion(m.labels, labels)
        mname == IF m.prefix # "" THEN m.prefix \o "_" \o metric ELSE metric
    IN  IF mname \notin MetricNames(m)
        THEN [m EXCEPT !.metrics = Append(@, [name |-> mname, help |-> help, type |-> type,
                                              values |-> <<[labels |-> lbl, value |-> value]>>])]
        ELSE [m EXCEPT !.metrics[MetricIndex(m, mname)].values =
                                              <<[labels |-> lbl, value |-> value]>>]

\* Metrics.add
Metrics_add(m, metric, value, labels, help, type) ==
    LET lbl   == DictUnion(m.labels, labels)
        mname == IF m.prefix # "" THEN m.prefix \o "_" \o metric ELSE metric
        m1    == IF mname \notin MetricNames(m)
                 THEN [m EXCEPT !.metrics = Append(@, [name |-> mname, help |-> help,
                                                       type |-> type, values |-> <<>>])]
                 ELSE m
    IN  [m1 EXCEPT !.metrics[MetricIndex(m1, mname)].values =
                        Append(@, [labels |-> lbl, value |-> value])]

\* the inner loop of Metrics.merge: every value of one metric is added
RECURSIVE MergeValues(_, _, _), MergeValuesNext(_, _, _)
MergeValues(acc, metric, i) ==
    IF i > Len(metric.values) THEN acc
    ELSE MergeValuesNext(Metrics_add(acc, metric.name, metric.values[i].value,
                                     metric.values[i].labels, metric.help, metric.type),
                         metric, i + 1)
MergeValuesNext(added, metric, i) ==
    IF Computed(added) THEN MergeValues(added, metric, i) ELSE added

\* for name, metric in item.metrics.items()
RECURSIVE MergeItem(_, _, _), MergeItemNext(_, _, _)
MergeItem(acc, item, j) ==
    IF j > Len(item.metrics) THEN acc
    ELSE MergeItemNext(MergeValues(acc, item.metrics[j], 1), item, j + 1)
MergeItemNext(added, item, j) ==
    IF Computed(added) THEN MergeItem(added, item, j) ELSE added

\* for item in metrics_list
RECURSIVE MergeList(_, _, _), MergeListNext(_, _, _)
MergeList(acc, metrics_list, k) ==
    IF k > Len(metrics_list) THEN acc
    ELSE MergeListNext(MergeItem(acc, metrics_list[k], 1), metrics_list, k + 1)
MergeListNext(added, metrics_list, k) ==
    IF Computed(added) THEN MergeList(added, metrics_list, k) ELSE added

\* Metrics.merge
Metrics_merge(metrics_list) == MergeList(Metrics_init("", NoLabels), metrics_list, 1)


(***************************************************************************)
(* Python exceptions: the result of a call that may raise                  *)
(***************************************************************************)
Returned(v)   == [exc |-> "none", msg |-> "", val |-> v]
Raised(e, msg) == [exc |-> e, msg |-> msg, val |-> <<>>]

\* req.get_param() of a parameter the request does not carry
None == "<None>"

(***************************************************************************)
(* class Shelly                                                            *)
(*   a device is what it answers to GET /shelly, /status and /settings:    *)
(*   [shelly, status, settings], each [ok, json, err]; ok = FALSE is a     *)
(*   transport error, a timeout or a body that is not JSON, err the text   *)
(*   of the exception requests raised.                                     *)
(***************************************************************************)
Answer(json) == [ok |-> TRUE, json |-> json, err |-> ""]
Failure(err) == [ok |-> FALSE, json |-> <<>>, err |-> err]

\* Shelly.api: every exception of requests.get / req.json becomes a ShellyException.
\* path is the key after re.sub(r'^/', '', path): "shelly", "status", "settings".
Shelly_api(dev, path) ==
    IF dev[path].ok THEN Returned(dev[path].json)
    ELSE Raised("ShellyException", dev[path].err)

\* Shelly.__init__: self._type = self.api('/shelly')['type'] subscripts outside api's try
Shelly_init(name, extra_labels, dev) ==
    IF name = None THEN Raised("ShellyException", "'name' cannot be empty")
    ELSE LET r == Shelly_api(dev, "shelly")
         IN  IF r.exc # "none" THEN r
             ELSE IF "type" \notin DOMAIN r.val THEN Raised("KeyError", "'type'")
             ELSE Returned([name |-> name, type |-> r.val.type, extra_labels |-> extra_labels])

\* cfg['targetcfg']: per-target keyword arguments of Shelly
targetcfg == [A |-> [extra_labels |-> [room |-> "attic"]]]

\* Shelly.create_with_cfg: {'extra_labels': {}, **cfg, 'name': name}
Shelly_create_with_cfg(name, tcfg, dev) ==
    LET cfg == IF name \in DOMAIN tcfg THEN tcfg[name] ELSE [k \in {} |-> <<>>]
        kw  == DictUnion([extra_labels |-> NoLabels], cfg)
    IN  Shelly_init(name, kw.extra_labels, dev)

\* Shelly.labels
Shelly_labels(self) == DictUnion(self.extra_labels, [name |-> self.name, type |-> self.type])

\* one metrics.add(...) call; help defaults to '' and type to 'gauge'
AddCall(metric, value, labels, help, type) ==
    [metric |-> metric, value |-> value, labels |-> labels, help |-> help, type |-> type]
Gauge(metric, value, help) == AddCall(metric, value, NoLabels, help, "gauge")
GaugeL(metric, value, labels, help) == AddCall(metric, value, labels, help, "gauge")

\* a run of metrics.add(...) calls on one collection, in order
RECURSIVE AddFrom(_, _, _), AddNext(_, _, _)
AddFrom(m, calls, i) ==
    IF i > Len(calls) THEN m
    ELSE AddNext(Metrics_add(m, calls[i].metric, calls[i].value, calls[i].labels,
                             calls[i].help, calls[i].type), calls, i + 1)
AddNext(added, calls, i) ==
    IF Computed(added) THEN AddFrom(added, calls, i) ELSE added

AddAll(m, calls) == AddFrom(m, calls, 1)

Has(j, k) == k \in DOMAIN j
Has2(j, k1, k2) == Has(j, k1) /\ Has(j[k1], k2)

\* the subscripts _get_metrics_base takes of the /status answer
BaseFields(status) ==
    /\ Has2(status, "wifi_sta", "connected")
    /\ Has2(status, "cloud", "enabled") /\ Has2(status, "cloud", "connected")
    /\ Has2(status, "mqtt", "connected")
    /\ Has(status, "serial")
    /\ Has2(status, "update", "has_update")
    /\ Has(status, "ram_total") /\ Has(status, "ram_free")
    /\ Has(status, "fs_size") /\ Has(status, "fs_free")
    /\ Has(status, "uptime")

BaseCalls(status) == <<
    Gauge("wifi_sta_connected", status.wifi_sta.connected,
          "Current status of the WiFi connection (connected or not)"),
    Gauge("cloud_enabled", status.cloud.enabled,
          "Current cloud connection status (enabled or not)"),
    Gauge("cloud_connected", status.cloud.connected,
          "Current cloud connection status (connected or not)"),
    Gauge("mqtt_connected", status.mqtt.connected,
          "MQTT connection status, when MQTT is enabled (connected or not)"),
    Gauge("serial", status.serial, "Cloud serial number"),
    Gauge("has_update", status.update.has_update, "Whether an update is available"),
    Gauge("ram_total", status.ram_total, "Total amount of system memory in bytes"),
    Gauge("ram_free", status.ram_free, "Available amount of system memory in bytes"),
    Gauge("fs_size", status.fs_size, "Total amount of the file system in bytes"),
    Gauge("fs_free", status.fs_free, "Available amount of the file system in bytes"),
    AddCall("uptime", status.uptime, NoLabels, "Seconds elapsed since boot", "counter") >>

\* Shelly._get_metrics_base
Shelly__get_metrics_base(self, dev) ==
    LET st == Shelly_api(dev, "status")
    IN  IF st.exc # "none" THEN st
        ELSE IF ~BaseFields(st.val) THEN Raised("KeyError", "status")
        ELSE Returned(AddAll(Metrics_init("shelly", Shelly_labels(self)),
                             BaseCalls(st.val)))

\* ---- _get_metrics_plug ----
RelayFields(r) ==
    /\ Has(r, "ison") /\ Has(r, "has_timer")
    /\ (r.has_timer => Has(r, "timer_started") /\ Has(r, "timer_duration")
                       /\ Has(r, "timer_remaining"))
    /\ Has(r, "overpower")

RelayCalls(r, i) ==
    LET labels == [relay |-> Str(i)]
    IN  << GaugeL("relay_ison", r.ison, labels, "Whether the channel is turned ON or OFF"),
           GaugeL("relay_has_timer", r.has_timer, labels,
                  "Whether a timer is currently armed for this channel") >>
        \o (IF r.has_timer
            THEN << GaugeL("relay_timer_started", r.timer_started, labels,
                      "Unix timestamp of timer start; 0 if timer inactive or time not synced"),
                    GaugeL("relay_timer_duration", r.timer_duration, labels,
                      "Timer duration, s"),
                    GaugeL("relay_timer_remaining", r.timer_remaining, labels,
                      "If there is an active timer, shows seconds until timer elapses; 0 otherwise") >>
            ELSE << >>)
        \o << GaugeL("relay_overpower", r.overpower, labels, "") >>

MeterFields(m) == Has(m, "power") /\ Has(m, "is_valid") /\ Has(m, "total")

MeterCalls(m, i) ==
    LET labels == [meter |-> Str(i)]
    IN  << GaugeL("meter_power", m.power, labels,
                  "Current real AC power being drawn, in Watts"),
           GaugeL("meter_is_valid", m.is_valid, labels,
                  "Whether power metering self-checks OK"),
           GaugeL("meter_total", m.total, labels,
                  "Total energy consumed by the attached electrical appliance in Watt-minute") >>

\* for i, x in enumerate(xs): the calls of every element, index from 0
RECURSIVE Enumerate(_, _, _)
Enumerate(Calls(_, _), xs, i) ==
    IF i > Len(xs) THEN << >> ELSE Calls(xs[i], i - 1) \o Enumerate(Calls, xs, i + 1)

PlugFields(self, settings, status) ==
    /\ Has(settings, "max_power")
    /\ (self.type = "SHPLG-S" =>
            /\ Has(settings, "led_status_disable") /\ Has(settings, "led_power_disable")
            /\ Has(status, "temperature") /\ Has(status, "overtemperature"))
    /\ Has(status, "relays")
    /\ \A i \in DOMAIN status.relays : RelayFields(status.relays[i])
    /\ Has(status, "meters")
    /\ \A i \in DOMAIN status.meters : MeterFields(status.meters[i])

PlugCalls(self, settings, status) ==
    << Gauge("max_power", settings.max_power, "Overpower threshold in Watts") >>
    \o (IF self.type = "SHPLG-S"
        THEN << Gauge("led_status_disable", settings.led_status_disable,
                      "Whether LED indication for connection status is enabled"),
                Gauge("led_power_disable", settings.led_power_disable,
                      "Whether LED indication for output status is enabled"),
                Gauge("temperature", status.temperature, "internal device temperature in C"),
                Gauge("overtemperature", status.overtemperature,
                      "true when device has overheated") >>
        ELSE << >>)
    \o Enumerate(RelayCalls, status.relays, 1)
    \o Enumerate(MeterCalls, status.meters, 1)

\* the shape shared by the three getters: base, then /settings, then /status again,
\* then the getter's own subscripts and add calls
VariantOf(self, base, se, st, Fields(_, _, _), Calls(_, _, _)) ==
    IF base.exc # "none" THEN base
    ELSE IF se.exc # "none" THEN se
    ELSE IF st.exc # "none" THEN st
    ELSE IF ~Fields(self, se.val, st.val) THEN Raised("KeyError", "status")
    ELSE Returned(AddAll(base.val, Calls(self, se.val, st.val)))

Variant(self, dev, Fields(_, _, _), Calls(_, _, _)) ==
    VariantOf(self, Shelly__get_metrics_base(self, dev), Shelly_api(dev, "settings"),
              Shelly_api(dev, "status"), Fields, Calls)

Shelly__get_metrics_plug(self, dev) == Variant(self, dev, PlugFields, PlugCalls)

\* ---- _get_metrics_trv ----
ThermostatFields(r) ==
    /\ Has(r, "pos")
    /\ Has2(r, "target_t", "enabled") /\ Has2(r, "target_t", "value")
    /\ Has2(r, "tmp", "value") /\ Has2(r, "tmp", "is_valid")
    /\ Has(r, "schedule") /\ Has(r, "schedule_profile") /\ Has(r, "boost_minutes")

ThermostatCalls(r, i) ==
    LET labels == [thermostats |-> Str(i)]
    IN  << GaugeL("pos", r.pos, labels, "Position of thermostat pin"),
           GaugeL("thermostat_enabled", r.target_t.enabled, labels,
                  "Whether the thermostat is enabled"),
           GaugeL("thermostat_target_t", r.target_t.value, labels,
                  "Thermostat target temperature"),
           GaugeL("thermostat_measured_temperature", r.tmp.value, labels,
                  "Thermostat measured temperature"),
           GaugeL("thermostat_measured_valid", r.tmp.is_valid, labels,
                  "Whether the temperature measurement is valid"),
           GaugeL("thermostat_is_scheduled", r.schedule, labels,
                  "Whether the thermostat is following a schedule"),
           GaugeL("thermostat_schedule_profile", r.schedule_profile, labels,
                  "Current thermostat profile"),
           GaugeL("thermostat_boost_minutes", r.boost_minutes, labels,
                  "Length of initial warm-up boost, in minutes") >>

TrvFields(self, settings, status) ==
    /\ Has2(status, "bat", "value") /\ Has2(status, "bat", "voltage")
    /\ Has(status, "charger")
    /\ Has(status, "thermostats")
    /\ \A i \in DOMAIN status.thermostats : ThermostatFields(status.thermostats[i])

TrvCalls(self, settings, status) ==
    << Gauge("bat_charge", status.bat.value, "Percentage of battery level"),
       Gauge("bat_voltage", status.bat.voltage, "Battery voltage"),
       Gauge("bat_charger", status.charger,
             "Boolean to show whether a charger is plugged in") >>
    \o Enumerate(ThermostatCalls, status.thermostats, 1)

Shelly__get_metrics_trv(self, dev) == Variant(self, dev, TrvFields, TrvCalls)

\* ---- _get_metrics_ht ----
HtFields(self, settings, status) ==
    /\ Has2(status, "bat", "value") /\ Has2(status, "bat", "voltage")
    /\ Has2(status, "hum", "value") /\ Has2(status, "hum", "is_valid")
    /\ Has2(status, "tmp", "value") /\ Has2(status, "tmp", "is_valid")

HtCalls(self, settings, status) ==
    << Gauge("bat_charge", status.bat.value, "Percentage of battery level"),
       Gauge("bat_voltage", status.bat.voltage, "Battery voltage"),
       Gauge("humidity", status.hum.value, "Air humidity, in %rH"),
       Gauge("humidity_valid", status.hum.is_valid,
             "Whether the humidity measurement is valid"),
       Gauge("temperature", status.tmp.value, "Air temperature"),
       Gauge("temperature_valid", status.tmp.is_valid,
             "Whether the temperature measurement is valid") >>

Shelly__get_metrics_ht(self, dev) == Variant(self, dev, HtFields, HtCalls)

\* a faulty variant: the lookup compares the type string without regard to case
Shelly_get_metrics_caseless(self, dev) ==
    IF self.type \in {"SHPLG-S", "shplg-s"} THEN Shelly__get_metrics_plug(self, dev)
    ELSE IF self.type = "SHTRV-01" THEN Shelly__get_metrics_trv(self, dev)
    ELSE IF self.type = "SHHT-1" THEN Shelly__get_metrics_ht(self, dev)
    ELSE Shelly__get_metrics_base(self, dev)

\* Shelly.get_metrics: getters[self.type]() if self.type in getters.keys() else base
Shelly_get_metrics(self, dev) ==
    IF self.type = "SHPLG-S" THEN Shelly__get_metrics_plug(self, dev)
    ELSE IF self.type = "SHTRV-01" THEN Shelly__get_metrics_trv(self, dev)
    ELSE IF self.type = "SHHT-1" THEN Shelly__get_metrics_ht(self, dev)
    ELSE Shelly__get_metrics_base(self, dev)


(***************************************************************************)
(* Device answers used as inputs                                           *)
(***************************************************************************)
Without(j, k) == [x \in (DOMAIN j) \ {k} |-> j[x]]

RelayOn       == [ison |-> TRUE, has_timer |-> FALSE, overpower |-> FALSE]
RelayTimed    == [ison |-> FALSE, has_timer |-> TRUE, timer_started |-> 1000,
                  timer_duration |-> 30, timer_remaining |-> 12, overpower |-> FALSE]
MeterOf(p)    == [power |-> p, is_valid |-> TRUE, total |-> 7]
ThermostatOf  == [pos |-> 40, target_t |-> [enabled |-> TRUE, value |-> 21],
                  tmp |-> [value |-> 19, is_valid |-> TRUE],
                  schedule |-> FALSE, schedule_profile |-> 2, boost_minutes |-> 0]

\* a /status answer that holds every field any getter reads
StatusOf(uptime, relays, has_update) ==
    [wifi_sta |-> [connected |-> TRUE],
     cloud |-> [enabled |-> TRUE, connected |-> FALSE],
     mqtt |-> [connected |-> FALSE],
     serial |-> 5, update |-> [has_update |-> has_update],
     ram_total |-> 50, ram_free |-> 30, fs_size |-> 200, fs_free |-> 100,
     uptime |-> uptime,
     temperature |-> 31, overtemperature |-> FALSE,
     relays |-> relays,
     meters |-> [i \in DOMAIN relays |-> MeterOf(i)],
     bat |-> [value |-> 90, voltage |-> 3], charger |-> FALSE,
     thermostats |-> << ThermostatOf >>,
     hum |-> [value |-> 55, is_valid |-> TRUE],
     tmp |-> [value |-> 20, is_valid |-> TRUE]]

SettingsOf == [max_power |-> 2500, led_status_disable |-> FALSE, led_power_disable |-> TRUE]

DeviceOf(type, status) ==
    [shelly |-> Answer([type |-> type]), status |-> Answer(status),
     settings |-> Answer(SettingsOf)]

(***************************************************************************)
(* Specification MergeSpec: collections are built by Metrics.add and       *)
(* handed to Metrics.merge.                                                *)
(***************************************************************************)
MaxAdds   == 3
MaxInputs == 2

AddOptions ==
    { AddCall("a", 1, NoLabels, "first help", "gauge"),
      AddCall("a", 1, NoLabels, "other help", "counter"),
      AddCall("a", 2, [relay |-> "0"], "first help", "gauge"),
      AddCall("b", 1, [name |-> "B"], "", "gauge") }

NewCollections == { Metrics_init("", NoLabels), Metrics_init("shelly", [name |-> "A"]) }

NotMerged == [done |-> FALSE, m |-> Metrics_init("", NoLabels)]

MergeInit ==
    /\ mcur \in NewCollections
    /\ mlist = << >>
    /\ mout = NotMerged
    /\ mbudget = MaxAdds

\* metrics.add(...) on the collection under construction
AddSample ==
    /\ mbudget > 0
    /\ \E c \in AddOptions :
          mcur' = Metrics_add(mcur, c.metric, c.value, c.labels, c.help, c.type)
    /\ mbudget' = mbudget - 1
    /\ UNCHANGED <<mlist, mout>>
    /\ UNCHANGED <<srvVars, dispVars, concVars>>

\* metrics += [collection]
AppendCollection ==
    /\ Len(mlist) < MaxInputs
    /\ mlist' = Append(mlist, mcur)
    /\ mcur' \in NewCollections
    /\ mout' = NotMerged
    /\ UNCHANGED mbudget
    /\ UNCHANGED <<srvVars, dispVars, concVars>>

\* metrics = Metrics.merge(metrics)
Merge ==
    /\ ~mout.done
    /\ mout' = [done |-> TRUE, m |-> Metrics_merge(mlist)]
    /\ UNCHANGED <<mcur, mlist, mbudget>>
    /\ UNCHANGED <<srvVars, dispVars, concVars>>

(***************************************************************************)
(* Specification DispatchSpec: Shelly.get_metrics on a device that         *)
(* answers every request with well-formed JSON.                            *)
(***************************************************************************)
MaxRelays == 2

TypeStrings == {"SHPLG-S", "SHTRV-01", "SHHT-1",
                "shplg-s", "SHPLG-1", "SHPLG-S ", "SHHT", "SHSW-25", ""}

RECURSIVE SeqsUpTo(_, _)
SeqsUpTo(S, n) ==
    IF n = 0 THEN {<< >>}
    ELSE LET shorter == SeqsUpTo(S, n - 1)
         IN  shorter \cup {Append(q, x) : q \in {r \in shorter : Len(r) = n - 1}, x \in S}

WellFormedStatuses ==
    {StatusOf(u, rs, h) : u \in {10, 20}, rs \in SeqsUpTo({RelayOn, RelayTimed}, MaxRelays),
                          h \in BOOLEAN}

NotDispatched == [done |-> FALSE, r |-> Returned(Metrics_init("", NoLabels))]

DispatchInit ==
    /\ dtype \in TypeStrings
    /\ \E st \in WellFormedStatuses : ddev = DeviceOf(dtype, st)
    /\ dout = NotDispatched

\* shelly = Shelly(name); metrics = shelly.get_metrics()
Dispatch ==
    /\ ~dout.done
    /\ LET self == Shelly_init("A", NoLabels, ddev)
       IN  dout' = [done |-> TRUE,
                    r |-> IF self.exc # "none" THEN self
                          ELSE Shelly_get_metrics(self.val, ddev)]
    /\ UNCHANGED <<dtype, ddev>>
    /\ UNCHANGED <<srvVars, mergeVars, concVars>>

\* the device is replaced by another one
DeviceChanges ==
    /\ dout.done
    /\ dtype' \in TypeStrings
    /\ \E st \in WellFormedStatuses : ddev' = DeviceOf(dtype', st)
    /\ dout' = NotDispatched
    /\ UNCHANGED <<srvVars, mergeVars, concVars>>


(***************************************************************************)
(* The persisted document and its pickle                                   *)
(*   the document is a dict identity -> Metrics: a sequence of [key, val]  *)
(*   in insertion order.  pickle.dump writes a framed stream of the items  *)
(*   and pickle.load parses it back.                                       *)
(***************************************************************************)
DictKeys(d) == {d[i].key : i \in DOMAIN d}

DictGet(d, k) == d[CHOOSE i \in DOMAIN d : d[i].key = k].val

\* a faulty variant: the assignment never adds a key that is not there yet
DictSet_existing_only(d, k, v) ==
    IF k \in DictKeys(d)
    THEN [i \in DOMAIN d |-> IF d[i].key = k THEN [key |-> k, val |-> v] ELSE d[i]]
    ELSE d

\* all_metrics[name] = metrics
DictSet(d, k, v) ==
    IF k \in DictKeys(d)
    THEN [i \in DOMAIN d |-> IF d[i].key = k THEN [key |-> k, val |-> v] ELSE d[i]]
    ELSE Append(d, [key |-> k, val |-> v])

pickle_dump(d) ==
    <<"{">> \o [i \in 1..(2 * Len(d)) |-> IF i % 2 = 1 THEN d[(i + 1) \div 2].key
                                                         ELSE d[i \div 2].val]
            \o <<"}">>

\* an empty stream raises EOFError
pickle_load(bytes) ==
    IF bytes = << >> THEN Raised("EOFError", "Ran out of input")
    ELSE Returned([i \in 1..((Len(bytes) - 2) \div 2) |->
                       [key |-> bytes[2 * i], val |-> bytes[2 * i + 1]]])

NoFile == [exists |-> FALSE, bytes |-> << >>]
FileOf(bytes) == [exists |-> TRUE, bytes |-> bytes]

(***************************************************************************)
(* class MetricsFile                                                       *)
(*   st = [s3_bucket, file, tmpfile, s3obj]: the configured bucket and the *)
(*   three places the class reads and writes.  A call returns              *)
(*   [exc, msg, val, st]: what it raised or returned, and the places after *)
(*   it.  net says whether a transfer to or from the bucket succeeds.      *)
(***************************************************************************)
Outcome(r, st) == [exc |-> r.exc, msg |-> r.msg, val |-> r.val, st |-> st]

\* MetricsFile._get_s3: boto3 is imported inside __init__ only, where the import
\* binds a local name; the module has no global boto3, so the lookup of boto3 in
\* _get_s3 raises NameError
MetricsFile__get_s3(net) == Raised("NameError", "name 'boto3' is not defined")

\* a faulty variant: the local file is written only when it does not exist yet
MetricsFile__write_metrics_once(st, metrics, net) ==
    IF st.s3_bucket = ""
    THEN Outcome(Returned(<<>>),
                 IF st.file.exists THEN st
                 ELSE [st EXCEPT !.file = FileOf(pickle_dump(metrics))])
    ELSE Outcome(MetricsFile__get_s3(net),
                 [st EXCEPT !.tmpfile = FileOf(pickle_dump(metrics))])

\* MetricsFile._write_metrics
MetricsFile__write_metrics(st, metrics, net) ==
    IF st.s3_bucket = ""
    THEN Outcome(Returned(<<>>), [st EXCEPT !.file = FileOf(pickle_dump(metrics))])
    ELSE LET st1 == [st EXCEPT !.tmpfile = FileOf(pickle_dump(metrics))]
             s3  == MetricsFile__get_s3(net)
         IN  IF s3.exc # "none" THEN Outcome(s3, st1)
             ELSE IF net # "ok" THEN Outcome(Raised("S3UploadFailedError", net), st1)
             ELSE Outcome(Returned(<<>>),
                          [st1 EXCEPT !.s3obj = st1.tmpfile, !.tmpfile = NoFile])

\* MetricsFile._init_file
MetricsFile__init_file(st, net) ==
    IF ~st.file.exists THEN MetricsFile__write_metrics(st, << >>, net)
    ELSE Outcome(Returned(<<>>), st)

\* MetricsFile._init_s3
MetricsFile__init_s3(st, net) ==
    LET s3 == MetricsFile__get_s3(net)
    IN  IF s3.exc # "none" THEN Outcome(s3, st)
        ELSE IF st.s3obj.exists THEN Outcome(Returned(<<>>), st)
        ELSE MetricsFile__write_metrics(st, << >>, net)

\* MetricsFile.__init__: the temporary name is one that does not exist
MetricsFile_init(st, net) ==
    IF st.s3_bucket # "" THEN MetricsFile__init_s3([st EXCEPT !.tmpfile = NoFile], net)
    ELSE MetricsFile__init_file(st, net)

\* MetricsFile.get_metrics
MetricsFile_get_metrics(st, net) ==
    IF st.s3_bucket = ""
    THEN IF ~st.file.exists
         THEN Outcome(Raised("FileNotFoundError", "No such file or directory"), st)
         ELSE Outcome(pickle_load(st.file.bytes), st)
    ELSE LET s3 == MetricsFile__get_s3(net)
         IN  IF s3.exc # "none" THEN Outcome(s3, st)
             ELSE IF net # "ok" \/ ~st.s3obj.exists
                  THEN Outcome(Raised("ClientError", net), st)
             ELSE Outcome(pickle_load(st.s3obj.bytes), [st EXCEPT !.tmpfile = NoFile])

\* MetricsFile.add_metrics
MetricsFile_add_metrics(st, name, metrics, net) ==
    LET all_metrics == MetricsFile_get_metrics(st, net)
    IN  IF all_metrics.exc # "none" THEN all_metrics
        ELSE MetricsFile__write_metrics(all_metrics.st, DictSet(all_metrics.val, name, metrics),
                                        net)


(***************************************************************************)
(* The request handlers                                                    *)
(*   a response is [status, text, metrics]: text is the plain-text body of *)
(*   an error, metrics the collected metrics handed to generate_latest     *)
(*   (the encoder is prometheus_client's).  An exception that on_get does  *)
(*   not catch reaches falcon, which answers 500.                          *)
(***************************************************************************)
Resp(status, text, metrics) == [status |-> status, text |-> text, metrics |-> metrics]

Uncaught(r) == Resp(500, "Internal Server Error", << >>)

Handled(r, st, stored) == [resp |-> r, st |-> st, stored |-> stored]

NotStored == [has |-> FALSE, m |-> Metrics_init("", NoLabels)]
Stored(m) == [has |-> TRUE, m |-> m]

\* metrics.add('probetime', int(time.time()), type='counter', help=...)
AddProbetime(metrics, t) ==
    Metrics_add(metrics, "probetime", t, NoLabels,
                "Unixtime this target was probed and saved.", "counter")

\* Prober.on_get, from if req.get_param('save') == 'true' on
ProberSaved(stamped, written) ==
    IF written.exc # "none" THEN Handled(Uncaught(written), written.st, NotStored)
    ELSE Handled(Resp(200, "", stamped.metrics), written.st, Stored(stamped))

ProberStamped(st, name, stamped, net) ==
    ProberSaved(stamped, MetricsFile_add_metrics(st, name, stamped, net))

\* a faulty variant: any value of the save parameter makes the probe save
ProberProbed_saving_any(st, save, name, metrics, t, net) ==
    IF metrics.exc = "ShellyException" THEN Handled(Resp(400, metrics.msg, << >>), st, NotStored)
    ELSE IF metrics.exc # "none" THEN Handled(Uncaught(metrics), st, NotStored)
    ELSE IF save # None THEN ProberStamped(st, name, AddProbetime(metrics.val, t), net)
    ELSE Handled(Resp(200, "", metrics.val.metrics), st, NotStored)

ProberProbed(st, save, name, metrics, t, net) ==
    IF metrics.exc = "ShellyException" THEN Handled(Resp(400, metrics.msg, << >>), st, NotStored)
    ELSE IF metrics.exc # "none" THEN Handled(Uncaught(metrics), st, NotStored)
    ELSE IF save = "true" THEN ProberStamped(st, name, AddProbetime(metrics.val, t), net)
    ELSE Handled(Resp(200, "", metrics.val.metrics), st, NotStored)

\* shelly = Shelly.create_with_cfg(...); metrics = shelly.get_metrics()
ShellyProbe(shelly, dev) ==
    IF shelly.exc # "none" THEN shelly ELSE Shelly_get_metrics(shelly.val, dev)

\* Prober.on_get
Prober_on_get(st, target, save, dev, t, net) ==
    ProberProbed(st, save, target,
                 ShellyProbe(Shelly_create_with_cfg(target, targetcfg, dev), dev), t, net)

\* the body of the try in Static.on_get: Shelly(target), create_with_cfg, get_metrics
StaticAttempt(target, dev) ==
    IF Shelly_init(target, NoLabels, dev).exc # "none" THEN Shelly_init(target, NoLabels, dev)
    ELSE ShellyProbe(Shelly_create_with_cfg(target, targetcfg, dev), dev)

\* m_down of the except branch
DownMetrics(target) ==
    Metrics_add(Metrics_init("shelly", [name |-> target]), "down", TRUE, NoLabels,
                "Shelly can't be reached", "gauge")

\* the loop over self._targets: only ShellyException is caught
RECURSIVE StaticLoop(_, _, _, _), StaticNext(_, _, _, _, _), StaticGrown(_, _, _, _)
StaticLoop(targets, devs, i, metrics) ==
    IF i > Len(targets) THEN Returned(metrics)
    ELSE StaticNext(targets, devs, i, metrics, StaticAttempt(targets[i], devs[targets[i]]))
StaticNext(targets, devs, i, metrics, r) ==
    IF r.exc = "none" THEN StaticGrown(targets, devs, i, Append(metrics, r.val))
    ELSE IF r.exc = "ShellyException"
    THEN StaticGrown(targets, devs, i, Append(metrics, DownMetrics(targets[i])))
    ELSE r
StaticGrown(targets, devs, i, metrics) ==
    IF Computed(metrics) THEN StaticLoop(targets, devs, i + 1, metrics) ELSE Returned(metrics)

\* for target, metric in get_metrics().items(): if target not in self._targets
PersistedShown(doc, targets) ==
    LET kept == SelectSeq(doc, LAMBDA e : e.key \notin Range(targets))
    IN  [i \in DOMAIN kept |-> kept[i].val]

\* Static.on_get, from the loop over the persisted entries on
StaticMerged(live, doc, targets) ==
    IF doc.exc # "none" THEN Handled(Uncaught(doc), doc.st, NotStored)
    ELSE Handled(Resp(200, "",
                      Metrics_merge(live.val \o PersistedShown(doc.val, targets)).metrics),
                 doc.st, NotStored)

StaticLive(st, live, targets, net) ==
    IF live.exc # "none" THEN Handled(Uncaught(live), st, NotStored)
    ELSE StaticMerged(live, MetricsFile_get_metrics(st, net), targets)

\* Static.on_get
Static_on_get(st, targets, devs, net) ==
    StaticLive(st, StaticLoop(targets, devs, 1, << >>), targets, net)

(***************************************************************************)
(* Specification Spec: run() builds the MetricsFile and serves requests    *)
(* one at a time (wsgiref's simple_server handles one request at a time).  *)
(***************************************************************************)
MaxTime == 2

Names == {"A", "B"}

StaticChoices == { <<"B">>, <<"A", "B">> }

\* what a device may do during one request
DeviceBehaviours == {"base", "ht", "timeout", "not_json", "missing_field", "missing_type"}

Device(behaviour) ==
    CASE behaviour = "base"    -> DeviceOf("SHSW-25", StatusOf(10, << >>, FALSE))
      [] behaviour = "ht"      -> DeviceOf("SHHT-1", StatusOf(20, << >>, TRUE))
      [] behaviour = "timeout" ->
            [shelly |-> Failure("timed out"), status |-> Failure("timed out"),
             settings |-> Failure("timed out")]
      [] behaviour = "not_json" ->
            [shelly |-> Failure("Expecting value"), status |-> Failure("Expecting value"),
             settings |-> Failure("Expecting value")]
      [] behaviour = "missing_field" ->
            DeviceOf("SHHT-1", Without(StatusOf(20, << >>, TRUE), "hum"))
      [] behaviour = "missing_type" ->
            [DeviceOf("SHSW-25", StatusOf(10, << >>, FALSE))
                EXCEPT !.shelly = Answer([k \in {} |-> ""])]

\* a document left by an earlier run: A saved at time 0
EarlierDoc ==
    << [key |-> "A",
        val |-> AddProbetime(Shelly_get_metrics(
                                 Shelly_create_with_cfg("A", targetcfg, Device("ht")).val,
                                 Device("ht")).val, 0)] >>

NoRequest == [handler |-> "none", target |-> None, save |-> None,
              devs |-> [n \in {} |-> ""], before |-> NoFile]

Storage == [s3_bucket |-> s3_bucket, file |-> file, tmpfile |-> tmpfile, s3obj |-> s3obj]

ServerInit ==
    /\ s3_bucket \in {"", "bucket"}
    /\ static_targets \in StaticChoices
    /\ server = "start"
    /\ IF s3_bucket = ""
       THEN /\ file \in {NoFile, FileOf(pickle_dump(<< >>)), FileOf(pickle_dump(EarlierDoc))}
            /\ s3obj = NoFile
       ELSE /\ file = NoFile
            /\ s3obj \in {NoFile, FileOf(pickle_dump(EarlierDoc))}
    /\ tmpfile = NoFile
    /\ now = 1
    /\ resp = Resp(0, "", << >>)
    /\ last = NoRequest
    /\ saved = [n \in Names |-> NotStored]

\* metrics_file = MetricsFile(...) in run(); an exception ends the process
Started(r) ==
    /\ server' = IF r.exc = "none" THEN "serving" ELSE "crashed"
    /\ file' = r.st.file
    /\ tmpfile' = r.st.tmpfile
    /\ s3obj' = r.st.s3obj

Start ==
    /\ server = "start"
    /\ \E net \in {"ok", "unreachable"} : Started(MetricsFile_init(Storage, net))
    /\ UNCHANGED <<s3_bucket, static_targets, now, resp, last, saved>>
    /\ UNCHANGED <<mergeVars, dispVars, concVars>>

\* what a handler's return leaves behind
Handle(h, request) ==
    /\ resp' = h.resp
    /\ file' = h.st.file
    /\ tmpfile' = h.st.tmpfile
    /\ s3obj' = h.st.s3obj
    /\ saved' = IF h.stored.has THEN [saved EXCEPT ![request.target] = h.stored] ELSE saved
    /\ last' = request
    /\ server' = "responding"

\* GET /probe.  time.time() does not run backwards: a saving probe reads a time t
\* not before the last one read.
Probe ==
    /\ server = "serving"
    /\ \E target \in Names \cup {None}, save \in {None, "true", "false"},
          b \in DeviceBehaviours, t \in now..MaxTime, net \in {"ok"} :
          /\ (save # "true" => t = now)
          /\ now' = t
          /\ Handle(Prober_on_get(Storage, target, save, Device(b), t, net),
                    [handler |-> "probe", target |-> target, save |-> save,
                     devs |-> IF target = None THEN [n \in {} |-> ""]
                              ELSE [n \in {target} |-> b],
                     before |-> file])
    /\ UNCHANGED <<s3_bucket, static_targets>>
    /\ UNCHANGED <<mergeVars, dispVars, concVars>>

\* GET /metrics
Scrape ==
    /\ server = "serving"
    /\ \E devs \in [Range(static_targets) -> DeviceBehaviours], net \in {"ok"} :
          Handle(Static_on_get(Storage, static_targets,
                               [n \in DOMAIN devs |-> Device(devs[n])], net),
                 [handler |-> "metrics", target |-> None, save |-> None,
                  devs |-> devs, before |-> file])
    /\ UNCHANGED <<s3_bucket, static_targets, now>>
    /\ UNCHANGED <<mergeVars, dispVars, concVars>>

\* the response is sent and serve_forever waits for the next request
Respond ==
    /\ server = "responding"
    /\ server' = "serving"
    /\ resp' = Resp(0, "", << >>)
    /\ last' = NoRequest
    /\ UNCHANGED <<s3_bucket, static_targets, file, tmpfile, s3obj, now, saved>>
    /\ UNCHANGED <<mergeVars, dispVars, concVars>>

(***************************************************************************)
(* Specification ConcSpec: two calls of MetricsFile.add_metrics on the     *)
(* same local file run concurrently (two exporters started on one          *)
(* metrics file, or the handlers under a threaded WSGI server).  Nothing   *)
(* in add_metrics locks the file, so the steps interleave freely:          *)
(*   read   get_metrics(): open(path, 'rb'), pickle.load                   *)
(*          and all_metrics[name] = metrics                                *)
(*   open   _write_metrics: open(path, 'wb') truncates the file            *)
(*   dump   _write_metrics: pickle.dump and close write the document       *)
(* A dump that lands on a file another saver wrote meanwhile leaves at     *)
(* least its own complete stream at the start of the file, which is all    *)
(* pickle.load reads: the file then loads as the last dumper's document.   *)
(***************************************************************************)
Savers == {"p", "q"}

LocalStorage(f) == [s3_bucket |-> "", file |-> f, tmpfile |-> NoFile, s3obj |-> NoFile]

SnapshotOf(name, behaviour, t) ==
    AddProbetime(ShellyProbe(Shelly_create_with_cfg(name, targetcfg, Device(behaviour)),
                             Device(behaviour)).val, t)

OtherDoc == << [key |-> "C", val |-> SnapshotOf("C", "base", 0)] >>

ConcInit ==
    /\ cfile \in {FileOf(pickle_dump(<< >>)), FileOf(pickle_dump(EarlierDoc)),
                  FileOf(pickle_dump(OtherDoc))}
    /\ \E na \in Names, nb \in Names, ba \in {"base", "ht"} :
          cjob = [s \in Savers |-> IF s = "p"
                                   THEN [name |-> na, metrics |-> SnapshotOf(na, ba, 1)]
                                   ELSE [name |-> nb, metrics |-> SnapshotOf(nb, "ht", 2)]]
    /\ cpc = [s \in Savers |-> "start"]
    /\ call = [s \in Savers |-> << >>]
    /\ cerr = [s \in Savers |-> "none"]
    /\ clog = << >>

\* all_metrics = self.get_metrics(); all_metrics[name] = metrics
ConcReadDone(s, r) ==
    /\ cpc' = [cpc EXCEPT ![s] = IF r.exc = "none" THEN "open" ELSE "failed"]
    /\ cerr' = [cerr EXCEPT ![s] = r.exc]
    /\ call' = [call EXCEPT ![s] = IF r.exc = "none"
                                   THEN DictSet(r.val, cjob[s].name, cjob[s].metrics)
                                   ELSE << >>]
    /\ clog' = Append(clog, [saver |-> s, op |-> "read", exc |-> r.exc, doc |-> r.val])

ConcRead(s) ==
    /\ cpc[s] = "start"
    /\ ConcReadDone(s, MetricsFile_get_metrics(LocalStorage(cfile), "ok"))
    /\ UNCHANGED <<cfile, cjob>>
    /\ UNCHANGED <<srvVars, mergeVars, dispVars>>

\* with open(path, 'wb') as pkl
ConcOpen(s) ==
    /\ cpc[s] = "open"
    /\ cfile' = FileOf(<< >>)
    /\ cpc' = [cpc EXCEPT ![s] = "dump"]
    /\ clog' = Append(clog, [saver |-> s, op |-> "open", exc |-> "none", doc |-> << >>])
    /\ UNCHANGED <<cjob, call, cerr>>
    /\ UNCHANGED <<srvVars, mergeVars, dispVars>>

\* pickle.dump(metrics, pkl) and the close at the end of the with block
ConcDump(s) ==
    /\ cpc[s] = "dump"
    /\ cfile' = MetricsFile__write_metrics(LocalStorage(cfile), call[s], "ok").st.file
    /\ cpc' = [cpc EXCEPT ![s] = "done"]
    /\ clog' = Append(clog, [saver |-> s, op |-> "dump", exc |-> "none", doc |-> << >>])
    /\ UNCHANGED <<cjob, call, cerr>>
    /\ UNCHANGED <<srvVars, mergeVars, dispVars>>

(***************************************************************************)
(* The specifications: each runs one part and leaves the others idle       *)
(***************************************************************************)
ServerIdle ==
    /\ s3_bucket = "" /\ static_targets = << >> /\ server = "off"
    /\ file = NoFile /\ tmpfile = NoFile /\ s3obj = NoFile
    /\ now = 0 /\ resp = Resp(0, "", << >>) /\ last = NoRequest
    /\ saved = [n \in Names |-> NotStored]

MergeIdle ==
    /\ mcur = Metrics_init("", NoLabels) /\ mlist = << >> /\ mout = NotMerged /\ mbudget = 0

DispatchIdle ==
    /\ dtype = "" /\ ddev = Device("base") /\ dout = NotDispatched

ConcIdle ==
    /\ cfile = NoFile /\ cjob = << >> /\ cpc = << >> /\ call = << >> /\ cerr = << >>
    /\ clog = << >>

Init == ServerInit /\ MergeIdle /\ DispatchIdle /\ ConcIdle
Next == Start \/ Probe \/ Scrape \/ Respond
Spec == Init /\ [][Next]_vars

MergeSpecInit == MergeInit /\ ServerIdle /\ DispatchIdle /\ ConcIdle
MergeNext == AddSample \/ AppendCollection \/ Merge
MergeSpec == MergeSpecInit /\ [][MergeNext]_vars

DispatchSpecInit == DispatchInit /\ ServerIdle /\ MergeIdle /\ ConcIdle
DispatchNext == Dispatch \/ DeviceChanges
DispatchSpec == DispatchSpecInit /\ [][DispatchNext]_vars


ConcSpecInit == ConcInit /\ ServerIdle /\ MergeIdle /\ DispatchIdle
ConcNext == \E s \in Savers : ConcRead(s) \/ ConcOpen(s) \/ ConcDump(s)
ConcSpec == ConcSpecInit /\ [][ConcNext]_vars


(***************************************************************************)
(* Reading a collected metrics sequence                                    *)
(***************************************************************************)
\* the sample list of a metric name, << >> when the name is not there
ValuesOf(ms, name) ==
    IF \E i \in DOMAIN ms : ms[i].name = name
    THEN ms[CHOOSE i \in DOMAIN ms : ms[i].name = name].values
    ELSE << >>

NamesOf(ms) == {ms[i].name : i \in DOMAIN ms}

HasSample(ms, name, sample) ==
    \E k \in DOMAIN ValuesOf(ms, name) : ValuesOf(ms, name)[k] = sample

\* every series of collection m is in ms, with its labels and value
ContainsAll(ms, m) ==
    \A j \in DOMAIN m.metrics : \A k \in DOMAIN m.metrics[j].values :
        HasSample(ms, m.metrics[j].name, m.metrics[j].values[k])

\* the places <<i, k>> of the samples of ms labelled name = x
SamplesLabelled(ms, x) ==
    UNION { { <<i, k>> : k \in { k \in DOMAIN ms[i].values :
                                   /\ "name" \in DOMAIN ms[i].values[k].labels
                                   /\ ms[i].values[k].labels.name = x } }
            : i \in DOMAIN ms }

NoDuplicateNames(ms) == \A i, j \in DOMAIN ms : ms[i].name = ms[j].name => i = j

(***************************************************************************)
(* C8                                                                      *)
(***************************************************************************)
\* the sample lists of one name over the inputs from k on, one after the other
RECURSIVE ConcatValues(_, _, _)
ConcatValues(list, name, k) ==
    IF k > Len(list) THEN << >>
    ELSE ValuesOf(list[k].metrics, name) \o ConcatValues(list, name, k + 1)

\* C8: Metrics.merge concatenates without deduplication.  After a merge the result
\* holds exactly the metric names of the inputs, each once, and the sample list of
\* each name is the inputs' sample lists for that name one after the other in input
\* order, labels and values unchanged; merge([]) is empty and merge([a]) has the
\* names and per-name samples of a.
C8_MergeConcatenates ==
    mout.done =>
        /\ NamesOf(mout.m.metrics) = UNION {NamesOf(mlist[k].metrics) : k \in DOMAIN mlist}
        /\ NoDuplicateNames(mout.m.metrics)
        /\ \A n \in NamesOf(mout.m.metrics) :
              ValuesOf(mout.m.metrics, n) = ConcatValues(mlist, n, 1)
        /\ (mlist = << >> => mout.m.metrics = << >>)
        /\ (Len(mlist) = 1 =>
              /\ NamesOf(mout.m.metrics) = NamesOf(mlist[1].metrics)
              /\ \A n \in NamesOf(mout.m.metrics) :
                    ValuesOf(mout.m.metrics, n) = ValuesOf(mlist[1].metrics, n))

\* two inputs share a name and even a sample: the merged list keeps both copies
C8_Witness ==
    /\ mout.done
    /\ Len(mlist) = 2
    /\ ValuesOf(mlist[1].metrics, "a") # << >>
    /\ ValuesOf(mlist[2].metrics, "a") # << >>
    /\ ValuesOf(mlist[1].metrics, "a")[1] = ValuesOf(mlist[2].metrics, "a")[1]
    /\ Len(ValuesOf(mout.m.metrics, "a")) = 3

(***************************************************************************)
(* C10                                                                     *)
(***************************************************************************)
SupportedTypes == {"SHPLG-S", "SHTRV-01", "SHHT-1"}

DispatchedSelf == [name |-> "A", type |-> dtype, extra_labels |-> NoLabels]

\* C10: device-type dispatch.  For every type string and every well-formed device,
\* get_metrics raises nothing, its collection starts with the base-only extraction
\* (so it contains every base series), it holds further series exactly when the type
\* string is one of 'SHPLG-S', 'SHTRV-01', 'SHHT-1', and for every other type string
\* it equals the base-only extraction.
C10_DispatchByExactType ==
    dout.done =>
        /\ dout.r.exc = "none"
        /\ Shelly__get_metrics_base(DispatchedSelf, ddev).exc = "none"
        /\ ContainsAll(dout.r.val.metrics, Shelly__get_metrics_base(DispatchedSelf, ddev).val)
        /\ (dtype \in SupportedTypes <=>
               Len(dout.r.val.metrics)
                  > Len(Shelly__get_metrics_base(DispatchedSelf, ddev).val.metrics))
        /\ (dtype \notin SupportedTypes =>
               dout.r = Shelly__get_metrics_base(DispatchedSelf, ddev))

\* a plug with two relays, one of them with an armed timer
C10_Witness ==
    /\ dout.done
    /\ dtype = "SHPLG-S"
    /\ Len(ddev.status.json.relays) = 2
    /\ Len(ValuesOf(dout.r.val.metrics, "shelly_relay_ison")) = 2
    /\ Len(ValuesOf(dout.r.val.metrics, "shelly_relay_timer_started")) = 1
    /\ ValuesOf(dout.r.val.metrics, "shelly_uptime") # << >>

(***************************************************************************)
(* C4                                                                      *)
(***************************************************************************)
AllDone == \A s \in Savers : cpc[s] = "done"

\* both savers read the document before either opened the file for writing
BothReadFirst == Len(clog) >= 2 /\ clog[1].op = "read" /\ clog[2].op = "read"

\* the saver whose dump came last, and the other one
LaterWriter == clog[Len(clog)].saver
EarlierWriter == CHOOSE s \in Savers : s # LaterWriter

\* C4: concurrent saves are an unprotected whole-document read-modify-write.  When two
\* saves for different identities both read the document before either writes, both
\* complete without error and the final document is the later writer's: what was read
\* plus the later writer's entry, without the entry the earlier writer wrote.
C4_LostUpdate ==
    (AllDone /\ BothReadFirst /\ cjob["p"].name # cjob["q"].name) =>
        /\ \A s \in Savers : cerr[s] = "none"
        /\ pickle_load(cfile.bytes).exc = "none"
        /\ DictKeys(pickle_load(cfile.bytes).val)
              = DictKeys(clog[1].doc) \cup {cjob[LaterWriter].name}
        /\ DictGet(pickle_load(cfile.bytes).val, cjob[LaterWriter].name)
              = cjob[LaterWriter].metrics
        /\ \A k \in DictKeys(clog[1].doc) \ {cjob[LaterWriter].name} :
              DictGet(pickle_load(cfile.bytes).val, k) = DictGet(clog[1].doc, k)
        /\ ~ ( /\ cjob[EarlierWriter].name \in DictKeys(pickle_load(cfile.bytes).val)
               /\ DictGet(pickle_load(cfile.bytes).val, cjob[EarlierWriter].name)
                     = cjob[EarlierWriter].metrics )

\* p saved A and q saved B into an empty document, both reading first; p dumped
\* first and its entry is gone
C4_Witness ==
    /\ AllDone /\ BothReadFirst
    /\ cjob["p"].name = "A" /\ cjob["q"].name = "B"
    /\ clog[1].doc = << >>
    /\ LaterWriter = "q"
    /\ cerr = [s \in Savers |-> "none"]
    /\ DictKeys(pickle_load(cfile.bytes).val) = {"B"}


(***************************************************************************)
(* The request just answered (server = "responding")                       *)
(***************************************************************************)
Answered(handler) == server = "responding" /\ last.handler = handler

\* the document the store held when the request arrived
DocBefore == pickle_load(last.before.bytes).val

\* what the live attempt at static target x came to
LiveAttempt(x) == StaticAttempt(x, Device(last.devs[x]))

(***************************************************************************)
(* C5                                                                      *)
(***************************************************************************)
\* C5: sequential save-then-load round trip.  After a probe that saved the snapshot of
\* an identity and answered 200, a load of the store succeeds and maps that identity
\* to exactly the snapshot handed to save, every other identity of the document to
\* what it was mapped to before, and holds no further identity.
C5_SaveThenLoad ==
    (Answered("probe") /\ last.save = "true" /\ resp.status = 200) =>
        /\ saved[last.target].has
        /\ MetricsFile_get_metrics(Storage, "ok").exc = "none"
        /\ DictKeys(MetricsFile_get_metrics(Storage, "ok").val)
              = DictKeys(DocBefore) \cup {last.target}
        /\ DictGet(MetricsFile_get_metrics(Storage, "ok").val, last.target)
              = saved[last.target].m
        /\ \A k \in DictKeys(DocBefore) \ {last.target} :
              DictGet(MetricsFile_get_metrics(Storage, "ok").val, k) = DictGet(DocBefore, k)

\* B is saved for the first time into a document that already holds A
C5_Witness ==
    /\ Answered("probe") /\ last.save = "true" /\ resp.status = 200
    /\ last.target = "B"
    /\ DictKeys(DocBefore) = {"A"}
    /\ DictKeys(MetricsFile_get_metrics(Storage, "ok").val) = {"A", "B"}
    /\ \E k \in DOMAIN ValuesOf(saved["B"].m.metrics, "shelly_probetime") :
          ValuesOf(saved["B"].m.metrics, "shelly_probetime")[k].value = now


(***************************************************************************)
(* C2, C3                                                                  *)
(***************************************************************************)
\* C2: /metrics does not fail on a device failure.  When the live attempt at a static
\* target fails for any reason (transport error, non-JSON body, or a JSON body
\* lacking an expected field), the answer is still 200, it holds exactly one series
\* for that target, shelly_down{name=target} = True, and all other targets are still
\* reported: the live series of the static targets that answered and the persisted
\* series of the identities that are not static targets.
C2_MetricsSurvivesDeviceFailure ==
    Answered("metrics") =>
        \A x \in Range(static_targets) :
            LiveAttempt(x).exc # "none" =>
                /\ resp.status = 200
                /\ Cardinality(SamplesLabelled(resp.metrics, x)) = 1
                /\ HasSample(resp.metrics, "shelly_down",
                             [labels |-> [name |-> x], value |-> TRUE])
                /\ \A y \in Range(static_targets) :
                      LiveAttempt(y).exc = "none" =>
                          ContainsAll(resp.metrics, LiveAttempt(y).val)
                /\ \A y \in DictKeys(DocBefore) \ Range(static_targets) :
                      ContainsAll(resp.metrics, DictGet(DocBefore, y))

\* C3: /probe failure handling.  When the target parameter is absent, or the device
\* cannot be reached, or it returns invalid JSON or JSON lacking an expected field,
\* the answer is 400 with the error's message as its body and no series.
C3_ProbeFailureIs400 ==
    (/\ Answered("probe")
     /\ \/ last.target = None
        \/ ShellyProbe(Shelly_create_with_cfg(last.target, targetcfg,
                                              Device(last.devs[last.target])),
                       Device(last.devs[last.target])).exc # "none")
    => /\ resp.status = 400
       /\ resp.text # ""
       /\ resp.metrics = << >>

(***************************************************************************)
(* C1, C7                                                                  *)
(***************************************************************************)
\* C1: static targets take precedence over persisted entries.  In the answer to
\* /metrics, a persisted entry for identity x is included exactly when x is not a
\* static target; for a static x every series labelled x is one of its live attempt
\* (the device's series, or the down marker when the attempt failed), and neither
\* the persisted snapshot nor its probetime is there.
C1_StaticShadowsPersisted ==
    Answered("metrics") =>
        \A x \in DictKeys(DocBefore) :
            IF x \in Range(static_targets)
            THEN /\ ValuesOf(resp.metrics, "shelly_probetime") = << >>
                    \/ \A k \in DOMAIN ValuesOf(resp.metrics, "shelly_probetime") :
                          ValuesOf(resp.metrics, "shelly_probetime")[k].labels.name # x
                 /\ \A pos \in SamplesLabelled(resp.metrics, x) :
                       HasSample((IF LiveAttempt(x).exc = "none" THEN LiveAttempt(x).val
                                  ELSE DownMetrics(x)).metrics,
                                 resp.metrics[pos[1]].name,
                                 resp.metrics[pos[1]].values[pos[2]])
            ELSE ContainsAll(resp.metrics, DictGet(DocBefore, x))

\* C7: stale snapshots persist.  Once a snapshot of an identity has been saved, and
\* the identity is not a static target, every later answer to /metrics holds the
\* series of the last saved snapshot, its probetime included, whatever the devices
\* do meanwhile.
C7_SavedSnapshotStaysVisible ==
    Answered("metrics") =>
        \A x \in Names \ Range(static_targets) :
            saved[x].has =>
                /\ ContainsAll(resp.metrics, saved[x].m)
                /\ \E k \in DOMAIN ValuesOf(resp.metrics, "shelly_probetime") :
                      ValuesOf(resp.metrics, "shelly_probetime")[k].labels.name = x

(***************************************************************************)
(* C6, C9                                                                  *)
(***************************************************************************)
\* C6: first use initialises the store.  With either medium, once the store has been
\* set up over a backing resource that may not have existed, the resource exists and
\* a load returns a mapping (the empty one if the resource was not there).
C6_FirstUseInitialises ==
    server # "start" =>
        /\ server # "crashed"
        /\ IF s3_bucket = "" THEN file.exists ELSE s3obj.exists
        /\ MetricsFile_get_metrics(Storage, "ok").exc = "none"

RequestHandled == server = "serving" /\ server' = "responding"

\* the request handled by the step is a probe with save=true that answered 200
SavingProbeSucceeded ==
    last'.handler = "probe" /\ last'.save = "true" /\ resp'.status = 200

\* C11: the persisted store is modified only by a successful probe with save
\* semantics.  Every other request (a /probe whose save parameter is absent or not
\* 'true', a /probe that fails with a device error even with save=true, and every
\* /metrics) leaves the backing resources as they were, so that the persisted
\* document has the same identities and the same snapshot for each.
C11_OnlySavingProbeWrites ==
    [][ (RequestHandled /\ ~SavingProbeSucceeded) =>
            /\ file' = file
            /\ s3obj' = s3obj
            /\ pickle_load(file'.bytes) = pickle_load(file.bytes) ]_vars

\* a probe of A with save=true failed on the device while the document held a
\* snapshot of A, and the document is what it was
C11_Witness ==
    /\ Answered("probe") /\ last.save = "true" /\ last.target = "A"
    /\ resp.status \in {400, 500}
    /\ "A" \in DictKeys(DocBefore)
    /\ file = last.before
    /\ DictGet(pickle_load(file.bytes).val, "A") = DictGet(DocBefore, "A")

====
